---- MODULE Spec2Model ----
(***************************************************************************)
(* Model of scripts/webmemo-schema.py: the paginated fetcher, the schema   *)
(* generators, the batch uploader, the JSON-LD validator and main().       *)
(* Python dicts are functions whose DOMAIN is the set of keys present;     *)
(* lists are sequences.  Every network call is answered by the environment *)
(* with a response, a non-success status or a raised exception.            *)
(***************************************************************************)
EXTENDS Integers, Sequences, FiniteSets, TLC

VARIABLES
    site,           \* environment: what the site serves (collections and html pages)
    call,           \* the call that started this run: function name and arguments
    events,         \* network requests sent and time.sleep calls made, in order
    served,         \* answers received by the function call now running, in order
    fpc,            \* fetch_all_pages: "idle", "loop", "returned", "raised"
    endpoint,       \* fetch_all_pages: its endpoint argument
    params,         \* fetch_all_pages: its params dict (mutated in place)
    all_items,      \* fetch_all_pages: accumulated items
    dpc,            \* fetch_data: 0 when not running, else index of the next fetch
    fdata,          \* fetch_data: its local dict data
    upc,            \* upload_schemas: "idle", "loop", "returned"
    up_schemas,     \* upload_schemas: its schemas argument
    batch_size,     \* upload_schemas: its batch_size argument
    i,              \* upload_schemas: loop variable i
    total_success,  \* upload_schemas
    total_errors,   \* upload_schemas
    vpc,            \* validate_schemas: "idle", "loop", "returned"
    urls,           \* validate_schemas: its urls argument
    vi,             \* validate_schemas: position of the for loop in urls
    results,        \* validate_schemas
    post_data,      \* generate_article_schema: its argument
    schema,         \* generate_article_schema: the dict returned
    mpc,            \* main: position
    args,           \* main: parsed command line flags
    env,            \* main: process environment (IN_COLAB, credentials path)
    data,           \* main: local data
    schemas,        \* main: local schemas
    stages,         \* main: stage banners printed, in order
    usage,          \* main: whether parser.print_help() ran
    auths,          \* number of authenticate() calls
    sheets          \* spreadsheet names save_to_sheet was called on, in order

fetchVars == <<fpc, endpoint, params, all_items>>
dataVars == <<dpc, fdata>>
uploadVars == <<upc, up_schemas, batch_size, i, total_success, total_errors>>
validateVars == <<vpc, urls, vi, results>>
articleVars == <<post_data, schema>>
mainVars == <<mpc, args, env, data, schemas, stages, usage, auths, sheets>>

vars == <<site, call, events, served, fetchVars, dataVars, uploadVars,
          validateVars, articleVars, mainVars>>

(***************************************************************************)
(* Bounds of the model.                                                    *)
(***************************************************************************)
MaxPages == 2       \* pages a served collection holds at most (fetch_all_pages alone)
MaxPerPage == 2     \* items a served page holds at most (fetch_all_pages alone)
MaxLen == 4         \* schema records handed to upload_schemas at most
MaxBatch == 3       \* largest batch_size handed to upload_schemas
MaxListed == 1      \* longest 'success' / 'errors' list in an upload answer
MaxUrls == 2        \* urls handed to validate_schemas at most
MaxBlocks == 3      \* JSON-LD blocks on a served html page at most

(***************************************************************************)
(* Generic helpers for dicts and lists.                                    *)
(***************************************************************************)
EmptyDict == <<>>

\* Python's None, and a local name that is not bound yet
None == ("None" :> TRUE)
Unbound == ("unbound" :> TRUE)

Has(d, k) == k \in DOMAIN d

\* dict.setdefault(k, v)
setdefault(d, k, v) == IF Has(d, k) THEN d ELSE d @@ (k :> v)

\* d[k] = v
Put(d, k, v) == [n \in DOMAIN d \cup {k} |-> IF n = k THEN v ELSE d[n]]

\* d.get(k, default)
Get(d, k, default) == IF Has(d, k) THEN d[k] ELSE default

SeqsUpTo(S, n) == UNION {[1..k -> S] : k \in 0..n}

RECURSIVE Flatten(_)
Flatten(ss) == IF ss = <<>> THEN <<>> ELSE Head(ss) \o Flatten(Tail(ss))

\* lst[a:b] with 0-based a, b as in Python (b past the end is clipped)
Slice(lst, a, b) == SubSeq(lst, a + 1, IF b < Len(lst) THEN b ELSE Len(lst))

(***************************************************************************)
(* The environment's answers to HTTP calls.                                *)
(***************************************************************************)
ErrorStatuses == {400, 503}

\* What list.extend would take from the JSON body of an error answer (a dict).
ErrorBody == <<"code", "message", "data">>

Response(status, body) == [kind |-> "response", status |-> status, body |-> body]
Raised == [kind |-> "raise", status |-> 0, body |-> <<>>]

\* A collection endpoint answers page p with the p-th page of the site's
\* collection, and with an empty list past its end.
PageBody(e, p) == IF p \in 1..Len(site[e]) THEN site[e][p] ELSE <<>>

\* requests.get(endpoint, params=params): the page, an error status, or an exception
GetResponses(e, prm) ==
    {Response(200, PageBody(e, prm["page"]))}
        \cup {Response(s, ErrorBody) : s \in ErrorStatuses}
        \cup {Raised}

(***************************************************************************)
(* fetch_all_pages(endpoint, params)                                       *)
(***************************************************************************)
PerPageDefault == 100
FirstPage == 1

\* lines 74-83: entering the function
fetch_all_pages_enter(e, prm) ==
    /\ endpoint' = e
    /\ params' = setdefault(setdefault(IF prm = None THEN EmptyDict ELSE prm,
                                       "per_page", PerPageDefault),
                            "page", FirstPage)
    /\ all_items' = <<>>
    /\ served' = <<>>
    /\ fpc' = "loop"

\* faulty variant of IsError: the status is not looked at
IsErrorNever(r) == FALSE

\* line 89: the test that breaks the loop on an error
IsError(r) == r.status # 200

\* faulty variant of Extend: all_items = items
ExtendReplaces(lst, items) == items

\* line 101: all_items.extend(items)
Extend(lst, items) == lst \o items

\* line 104: params['page'] += 1
NextPage(prm) == Put(prm, "page", prm["page"] + 1)

\* lines 85-107: one iteration of the while loop; a break goes on to the return
fetch_all_pages_iter ==
    /\ fpc = "loop"
    /\ \E r \in GetResponses(endpoint, params) :
        /\ events' = Append(events, <<"GET", endpoint, params["page"]>>)
        /\ served' = Append(served, r)
        /\ IF r.kind = "raise"
             THEN /\ fpc' = "raised"
                  /\ UNCHANGED <<all_items, params>>
             ELSE IF IsError(r)
             THEN /\ fpc' = "returned"
                  /\ UNCHANGED <<all_items, params>>
             ELSE IF r.body = <<>>
             THEN /\ fpc' = "returned"
                  /\ UNCHANGED <<all_items, params>>
             ELSE /\ all_items' = Extend(all_items, r.body)
                  /\ params' = NextPage(params)
                  /\ fpc' = "loop"
    /\ UNCHANGED <<site, call, endpoint, dataVars, uploadVars, validateVars,
                   articleVars, mainVars>>

(***************************************************************************)
(* fetch_data()                                                            *)
(***************************************************************************)
\* lines 114-132: the fetches in program order, with the params each passes
FetchOrder == <<"posts", "pages", "users", "categories", "tags">>

EmbedParams == ("_embed" :> TRUE) @@ ("status" :> "publish")

FetchParams(k) == IF k \in {1, 2} THEN EmbedParams ELSE None

\* line 111: entering fetch_data
fetch_data_enter ==
    /\ dpc' = 1
    /\ fdata' = EmptyDict

\* lines 114-132: the next call of fetch_all_pages
fetch_data_call ==
    /\ dpc \in 1..Len(FetchOrder)
    /\ fpc = "idle"
    /\ fetch_all_pages_enter(FetchOrder[dpc], FetchParams(dpc))
    /\ UNCHANGED <<site, call, events, dataVars, uploadVars, validateVars,
                   articleVars, mainVars>>

\* lines 114-132: data[...] = the list fetch_all_pages returned
fetch_data_store ==
    /\ dpc \in 1..Len(FetchOrder)
    /\ fpc = "returned"
    /\ fdata' = Put(fdata, FetchOrder[dpc], all_items)
    /\ dpc' = dpc + 1
    /\ fpc' = "idle"
    /\ UNCHANGED <<site, call, events, served, endpoint, params, all_items,
                   uploadVars, validateVars, articleVars, mainVars>>

fetch_data_returned == dpc = Len(FetchOrder) + 1

(***************************************************************************)
(* JSON text.  json.dumps(v) is the text Dumped(v); json.loads reads it    *)
(* back, and fails on text that is not JSON.                               *)
(***************************************************************************)
Dumped(v) == [json |-> v]

\* Script bodies a page may carry: a JSON object, a JSON array (JSON-LD allows
\* a top-level array), and a text that is not JSON.
ObjectTexts == {Dumped("@type" :> "Article")}
ArrayTexts == {[jsonlist |-> <<"Article">>]}
BrokenTexts == {[broken |-> "{\"@type\": "]}
BlockTexts == ObjectTexts \cup ArrayTexts \cup BrokenTexts

\* Bodies an upload answer may carry: a JSON object or a text that is not JSON.
IsJson(text) == ~Has(text, "broken")

\* json.loads(text) / response.json() of a text that is JSON
JsonLoads(text) == IF Has(text, "json") THEN text["json"] ELSE text["jsonlist"]

\* whether json.loads(text) is a list rather than a dict
LoadsList(text) == Has(text, "jsonlist")

\* str(e) of the json.JSONDecodeError raised for a text
DecodeError(text) == [JSONDecodeError |-> text]

(***************************************************************************)
(* generate_person_schema(user_data), lines 136-160                        *)
(***************************************************************************)
generate_person_schema(user_data) ==
    LET user_url == "https://api.webmemo.ch/author/" \o user_data["slug"]
        base == ("@context" :> "https://schema.org")
                    @@ ("@type" :> "Person")
                    @@ ("@id" :> user_url)
                    @@ ("name" :> user_data["name"])
                    @@ ("url" :> user_url)
                    @@ ("description" :> Get(user_data, "description", ""))
        withMail == IF Has(user_data, "user_email")
                        THEN Put(base, "email", user_data["user_email"])
                        ELSE base
        social_profiles == <<>>
    IN  IF social_profiles # <<>>
            THEN Put(withMail, "sameAs", social_profiles)
            ELSE withMail

(***************************************************************************)
(* generate_article_schema(post_data), lines 162-212                       *)
(***************************************************************************)
DefaultWidth == 1200
DefaultHeight == 630

\* faulty variant of HasFeaturedMedia: post_data['featured_media'] >= 0
HasFeaturedMediaFromZero(post) ==
    Has(post, "featured_media") /\ post["featured_media"] >= 0

\* line 185
HasFeaturedMedia(post) ==
    Has(post, "featured_media") /\ post["featured_media"] > 0

\* lines 189-194
ImageObject(media) ==
    ("@type" :> "ImageObject")
        @@ ("url" :> media["source_url"])
        @@ ("width" :> Get(media, "width", DefaultWidth))
        @@ ("height" :> Get(media, "height", DefaultHeight))

\* lines 185-194: the schema with the featured image attached, if there is one
WithImage(sch, post) ==
    IF HasFeaturedMedia(post)
        THEN IF Has(post["_embedded"], "wp:featuredmedia")
                    /\ post["_embedded"]["wp:featuredmedia"] # <<>>
                THEN LET media == post["_embedded"]["wp:featuredmedia"][1]
                     IN  IF Has(media, "source_url")
                            THEN Put(sch, "image", ImageObject(media))
                            ELSE sch
                ELSE sch
        ELSE sch

\* [term['name'] for term in lst]
Names(lst) == [k \in 1..Len(lst) |-> lst[k]["name"]]

\* ", ".join(lst)
RECURSIVE Join(_)
Join(lst) ==
    IF lst = <<>> THEN ""
    ELSE IF Len(lst) = 1 THEN lst[1]
    ELSE lst[1] \o ", " \o Join(Tail(lst))

\* lines 197-210
WithKeywords(sch, post) ==
    IF Has(post["_embedded"], "wp:term")
        THEN LET terms == post["_embedded"]["wp:term"]
                 cats == IF Len(terms) > 0 THEN Names(terms[1]) ELSE <<>>
                 tags == IF Len(terms) > 1 THEN Names(terms[2]) ELSE <<>>
                 keywords == cats \o tags
             IN  IF keywords # <<>>
                    THEN Put(sch, "keywords", Join(keywords))
                    ELSE sch
        ELSE sch

\* lines 164-182
ArticleBase(post) ==
    ("@context" :> "https://schema.org")
        @@ ("@type" :> "Article")
        @@ ("headline" :> post["title"]["rendered"])
        @@ ("datePublished" :> post["date"])
        @@ ("dateModified" :> post["modified"])
        @@ ("url" :> post["link"])
        @@ ("author" :> (("@type" :> "Person")
                            @@ ("@id" :> "https://webmemo.ch/author/"
                                    \o post["_embedded"]["author"][1]["slug"])))
        @@ ("publisher" :> ("@id" :> "https://webmemo.ch/#consulting"))
        @@ ("mainEntityOfPage" :> (("@type" :> "WebPage") @@ ("@id" :> post["link"])))

generate_article_schema(post) == WithKeywords(WithImage(ArticleBase(post), post), post)

(***************************************************************************)
(* generate_schemas(data), lines 245-273                                   *)
(***************************************************************************)
\* datetime.now().strftime(...): one run is shorter than the clock's second
Now == "2024-01-01 00:00:00"

PersonRecord(user) ==
    [object_id |-> user["id"], object_type |-> "user", schema_type |-> "Person",
     schema_data |-> Dumped(generate_person_schema(user)), last_updated |-> Now]

ArticleRecord(post) ==
    [object_id |-> post["id"], object_type |-> "post", schema_type |-> "Article",
     schema_data |-> Dumped(generate_article_schema(post)), last_updated |-> Now]

generate_schemas(d) ==
    [k \in 1..Len(d["users"]) |-> PersonRecord(d["users"][k])]
        \o [k \in 1..Len(d["posts"]) |-> ArticleRecord(d["posts"][k])]

(***************************************************************************)
(* upload_schemas(schemas, batch_size=50), lines 275-318                   *)
(***************************************************************************)
BatchSizeDefault == 50

\* Answers of the schema endpoint to a POST.  A 200 answer carries a JSON object
\* with or without the 'success' and 'errors' lists, or a body that is not JSON.
Listed(n) == [k \in 1..n |-> "id"]

UploadResults ==
    {EmptyDict}
        \cup {("success" :> Listed(n)) : n \in 0..MaxListed}
        \cup {("errors" :> Listed(MaxListed))}
        \cup {("success" :> Listed(n)) @@ ("errors" :> Listed(MaxListed)) : n \in 0..MaxListed}

PostResponses ==
    {Response(200, Dumped(res)) : res \in UploadResults}
        \cup {Response(200, t) : t \in BrokenTexts}
        \cup {Response(s, Dumped(EmptyDict)) : s \in ErrorStatuses}
        \cup {Raised}

\* lines 281-282: entering the function
upload_schemas_enter(lst, size) ==
    /\ up_schemas' = lst
    /\ batch_size' = size
    /\ i' = 0
    /\ total_success' = 0
    /\ total_errors' = 0
    /\ served' = <<>>
    /\ upc' = "loop"

\* faulty variant of Batch: schemas[i:i+batch_size-1]
BatchShort(lst, k, size) == Slice(lst, k, k + size - 1)

\* line 286: batch = schemas[i:i+batch_size]
Batch(lst, k, size) == Slice(lst, k, k + size)

\* faulty variant of FailedCount: total_errors += batch_size
FailedCountFull(batch) == batch_size

\* lines 308 and 312: total_errors += len(batch)
FailedCount(batch) == Len(batch)

\* lines 288-312: what the answer r to the POST of batch adds to
\* <<total_success, total_errors>>
Counted(r, batch) ==
    IF r.kind = "raise"
        THEN <<0, FailedCount(batch)>>
    ELSE IF r.status = 200
        THEN IF IsJson(r.body)
                THEN LET result == JsonLoads(r.body)
                     IN  <<Len(Get(result, "success", <<>>)),
                           Len(Get(result, "errors", <<>>))>>
                ELSE <<0, FailedCount(batch)>>
    ELSE <<0, FailedCount(batch)>>

\* lines 285-318: one iteration of the for loop, with its time.sleep(1); once
\* range(0, len(schemas), batch_size) is exhausted, the return of the totals
upload_schemas_step ==
    /\ upc = "loop"
    /\ IF i < Len(up_schemas)
         THEN LET batch == Batch(up_schemas, i, batch_size)
              IN  /\ \E r \in PostResponses :
                        /\ events' = events \o << <<"POST", "schema", batch>>,
                                                  <<"sleep", 1>> >>
                        /\ served' = Append(served, r)
                        /\ total_success' = total_success + Counted(r, batch)[1]
                        /\ total_errors' = total_errors + Counted(r, batch)[2]
                  /\ i' = i + batch_size
                  /\ upc' = "loop"
         ELSE /\ upc' = "returned"
              /\ UNCHANGED <<events, served, total_success, total_errors, i>>
    /\ UNCHANGED <<site, call, up_schemas, batch_size, fetchVars, dataVars,
                   validateVars, articleVars, mainVars>>

(***************************************************************************)
(* validate_schemas(urls), lines 320-378                                   *)
(***************************************************************************)
\* lines 4-31: the names the module's import statements bind
ImportedNames ==
    {"requests", "json", "pd", "argparse", "os", "time", "datetime", "auth",
     "drive", "gspread", "GoogleCredentials", "load_dotenv", "colab_auth",
     "Credentials", "build"}

\* requests.get(url): the html page, an error status, or an exception.  A page
\* is given by the bodies of its <script type="application/ld+json"> elements.
PageResponses(url) ==
    {Response(200, site[url])}
        \cup {Response(s, <<>>) : s \in ErrorStatuses}
        \cup {Raised}

\* lines 353-359 and 363-370: the record appended for block k (0-based) of url
ValidRecord(url, k, schema_data) ==
    [url |-> url, schema_index |-> k,
     schema_type |-> Get(schema_data, "@type", "Unknown"),
     valid_json |-> TRUE, schema_data |-> Dumped(schema_data)]

InvalidRecord(url, k, script_content) ==
    [url |-> url, schema_index |-> k, schema_type |-> "Invalid JSON",
     valid_json |-> FALSE, error |-> DecodeError(script_content),
     schema_data |-> script_content]

\* lines 344-370: the for loop over matches from block k on, appending to acc;
\* schema_data.get raises AttributeError when json.loads returned a list, which
\* leaves the loop with the records appended so far
RECURSIVE ParseBlocks(_, _, _, _)
ParseBlocks(url, matches, k, acc) ==
    IF k > Len(matches) THEN [results |-> acc, raised |-> FALSE]
    ELSE IF ~IsJson(matches[k])
        THEN ParseBlocks(url, matches, k + 1,
                         Append(acc, InvalidRecord(url, k - 1, matches[k])))
    ELSE IF LoadsList(matches[k])
        THEN [results |-> acc, raised |-> TRUE]
    ELSE ParseBlocks(url, matches, k + 1,
                     Append(acc, ValidRecord(url, k - 1, JsonLoads(matches[k]))))

\* lines 327-373: the body of the try statement for answer r; sleeps tells
\* whether the iteration goes on to time.sleep(1) or leaves by continue
ValidateOne(url, r, acc) ==
    IF r.kind = "raise"
        THEN [results |-> acc, sleeps |-> TRUE]
    ELSE IF r.status # 200
        THEN [results |-> acc, sleeps |-> FALSE]
    ELSE IF "re" \notin ImportedNames
        THEN [results |-> acc, sleeps |-> TRUE]
    ELSE IF r.body = <<>>
        THEN [results |-> acc, sleeps |-> FALSE]
    ELSE [results |-> ParseBlocks(url, r.body, 1, acc).results, sleeps |-> TRUE]

\* line 322: entering the function
validate_schemas_enter(lst) ==
    /\ urls' = lst
    /\ vi' = 1
    /\ results' = <<>>
    /\ served' = <<>>
    /\ vpc' = "loop"

\* lines 324-376: one iteration of the for loop
validate_schemas_iter ==
    /\ vpc = "loop"
    /\ vi <= Len(urls)
    /\ \E r \in PageResponses(urls[vi]) :
        LET out == ValidateOne(urls[vi], r, results)
        IN  /\ served' = Append(served, r)
            /\ results' = out.results
            /\ events' = events \o << <<"GET", urls[vi], 0>> >>
                            \o (IF out.sleeps THEN << <<"sleep", 1>> >> ELSE <<>>)
    /\ vi' = vi + 1
    /\ UNCHANGED <<site, call, vpc, urls, fetchVars, dataVars, uploadVars,
                   articleVars, mainVars>>

\* lines 324, 378: urls is exhausted, results is returned
validate_schemas_return ==
    /\ vpc = "loop"
    /\ vi > Len(urls)
    /\ vpc' = "returned"
    /\ UNCHANGED <<site, call, events, served, urls, vi, results, fetchVars,
                   dataVars, uploadVars, articleVars, mainVars>>

(***************************************************************************)
(* authenticate(), lines 50-70, and save_to_sheet, lines 214-243           *)
(***************************************************************************)
\* lines 54-70: whether authenticate() returns a client; otherwise it raises
\* ValueError
Authenticates(e) == e.IN_COLAB \/ e.credentials_path # ""

\* line 405: f"Webmemo {entity_type.capitalize()}"
SheetName(entity_type) ==
    CASE entity_type = "posts" -> "Webmemo Posts"
      [] entity_type = "pages" -> "Webmemo Pages"
      [] entity_type = "users" -> "Webmemo Users"
      [] entity_type = "categories" -> "Webmemo Categories"
      [] entity_type = "tags" -> "Webmemo Tags"

\* lines 404-405: save_to_sheet for every entity type, in the dict's order.
\* save_to_sheet catches every exception of the spreadsheet API and its
\* return value is not used, so a call leaves no trace but the write attempt.
SavedEntitySheets == [k \in 1..Len(FetchOrder) |-> SheetName(FetchOrder[k])]

(***************************************************************************)
(* main(), lines 380-436                                                   *)
(***************************************************************************)
Flags == [fetch : BOOLEAN, generate : BOOLEAN, upload : BOOLEAN,
          validate : BOOLEAN, all : BOOLEAN]

\* line 391: any(vars(args).values())
AnyFlag(a) == a.fetch \/ a.generate \/ a.upload \/ a.validate \/ a.all

\* line 421: schemas = []
LoadedSchemas == <<>>

\* lines 427-431
MainUrls == <<"https://webmemo.ch",
              "https://webmemo.ch/kontakt-ueber-mich-walter-schaerer">>

\* lines 388-393
main_parse ==
    /\ mpc = "parse"
    /\ IF AnyFlag(args)
         THEN mpc' = "authenticate" /\ UNCHANGED usage
         ELSE mpc' = "done" /\ usage' = TRUE
    /\ UNCHANGED <<site, call, events, served, fetchVars, dataVars, uploadVars,
                   validateVars, articleVars, args, env, data, schemas, stages,
                   auths, sheets>>

\* line 396
main_authenticate ==
    /\ mpc = "authenticate"
    /\ auths' = auths + 1
    /\ mpc' = IF Authenticates(env) THEN "fetch" ELSE "ValueError"
    /\ UNCHANGED <<site, call, events, served, fetchVars, dataVars, uploadVars,
                   validateVars, articleVars, args, env, data, schemas, stages,
                   usage, sheets>>

\* lines 399-401: the fetch stage starts, or is skipped
main_fetch ==
    /\ mpc = "fetch"
    /\ IF args.all \/ args.fetch
         THEN /\ stages' = Append(stages, "fetch")
              /\ fetch_data_enter
              /\ mpc' = "fetching"
         ELSE /\ mpc' = "generate"
              /\ UNCHANGED <<stages, dataVars>>
    /\ UNCHANGED <<site, call, events, served, fetchVars, uploadVars,
                   validateVars, articleVars, args, env, data, schemas, usage,
                   auths, sheets>>

\* lines 401-405: fetch_data() has returned; its lists are saved
main_fetch_done ==
    /\ mpc = "fetching"
    /\ fetch_data_returned
    /\ data' = fdata
    /\ sheets' = sheets \o SavedEntitySheets
    /\ dpc' = 0
    /\ mpc' = "generate"
    /\ UNCHANGED <<site, call, events, served, fetchVars, fdata, uploadVars,
                   validateVars, articleVars, args, env, schemas, stages, usage,
                   auths>>

\* lines 407-410: the generate stage starts, or is skipped
main_generate ==
    /\ mpc = "generate"
    /\ IF args.all \/ args.generate
         THEN /\ stages' = Append(stages, "generate")
              /\ fetch_data_enter
              /\ mpc' = "generating"
         ELSE /\ mpc' = "upload"
              /\ UNCHANGED <<stages, dataVars>>
    /\ UNCHANGED <<site, call, events, served, fetchVars, uploadVars,
                   validateVars, articleVars, args, env, data, schemas, usage,
                   auths, sheets>>

\* lines 410-415: fetch_data() has returned; the schemas are generated and saved
main_generate_done ==
    /\ mpc = "generating"
    /\ fetch_data_returned
    /\ data' = fdata
    /\ schemas' = generate_schemas(fdata)
    /\ sheets' = Append(sheets, "Webmemo Schemas")
    /\ dpc' = 0
    /\ mpc' = "upload"
    /\ UNCHANGED <<site, call, events, served, fetchVars, fdata, uploadVars,
                   validateVars, articleVars, args, env, stages, usage, auths>>

\* an exception of requests.get leaves fetch_all_pages, fetch_data and main:
\* none of them has a try statement around the call
main_raised ==
    /\ mpc \in {"fetching", "generating"}
    /\ fpc = "raised"
    /\ mpc' = "RequestException"
    /\ UNCHANGED <<site, call, events, served, fetchVars, dataVars, uploadVars,
                   validateVars, articleVars, args, env, data, schemas, stages,
                   usage, auths, sheets>>

\* lines 417-423: the upload stage starts, or is skipped
main_upload ==
    /\ mpc = "upload"
    /\ IF args.all \/ args.upload
         THEN /\ stages' = Append(stages, "upload")
              /\ schemas' = LoadedSchemas
              /\ upload_schemas_enter(LoadedSchemas, BatchSizeDefault)
              /\ mpc' = "uploading"
         ELSE /\ mpc' = "validate"
              /\ UNCHANGED <<stages, schemas, uploadVars, served>>
    /\ UNCHANGED <<site, call, events, fetchVars, dataVars, validateVars,
                   articleVars, args, env, data, usage, auths, sheets>>

\* line 423: upload_schemas has returned
main_upload_done ==
    /\ mpc = "uploading"
    /\ upc = "returned"
    /\ upc' = "idle"
    /\ mpc' = "validate"
    /\ UNCHANGED <<site, call, events, served, fetchVars, dataVars, up_schemas,
                   batch_size, i, total_success, total_errors, validateVars,
                   articleVars, args, env, data, schemas, stages, usage, auths,
                   sheets>>

\* lines 425-433: the validate stage starts, or is skipped and main returns
main_validate ==
    /\ mpc = "validate"
    /\ IF args.all \/ args.validate
         THEN /\ stages' = Append(stages, "validate")
              /\ validate_schemas_enter(MainUrls)
              /\ mpc' = "validating"
         ELSE /\ mpc' = "done"
              /\ UNCHANGED <<stages, validateVars, served>>
    /\ UNCHANGED <<site, call, events, fetchVars, dataVars, uploadVars,
                   articleVars, args, env, data, schemas, usage, auths, sheets>>

\* lines 433-436: validate_schemas has returned; its records are saved
main_validate_done ==
    /\ mpc = "validating"
    /\ vpc = "returned"
    /\ sheets' = Append(sheets, "Webmemo Schema Validation")
    /\ vpc' = "idle"
    /\ mpc' = "done"
    /\ UNCHANGED <<site, call, events, served, fetchVars, dataVars, uploadVars,
                   urls, vi, results, articleVars, args, env, data, schemas,
                   stages, usage, auths>>

(***************************************************************************)
(* Inputs: what the callers pass and what the site holds.                  *)
(***************************************************************************)
NoCall == [fn |-> "none"]

Items == {"a", "b"}

\* collections served to fetch_all_pages called alone: up to MaxPages pages of
\* up to MaxPerPage items each (an empty page may sit anywhere)
ItemPages == SeqsUpTo(Items, MaxPerPage)
Collections == SeqsUpTo(ItemPages, MaxPages)

ParamChoices == {None, EmptyDict, EmbedParams, ("page" :> 2)}

\* schema records handed to upload_schemas called alone
SchemaList(n) == [k \in 1..n |-> [object_id |-> k]]

\* html pages served to validate_schemas called alone
HtmlPages == SeqsUpTo(BlockTexts, MaxBlocks)
Urls == {MainUrls[k] : k \in 1..Len(MainUrls)}

\* posts handed to generate_article_schema called alone
MediaFull ==
    ("source_url" :> "https://webmemo.ch/a.jpg") @@ ("width" :> 800) @@ ("height" :> 600)
MediaChoices == {[k \in K |-> MediaFull[k]] : K \in SUBSET DOMAIN MediaFull}
\* an optional key of an input dict: left out, or present with a value
Absent == [absent |-> TRUE]
Some(v) == [some |-> v]

FeaturedChoices ==
    {Absent, Some(<<>>)} \cup {Some(<<m>>) : m \in MediaChoices}
        \cup {Some(<<("width" :> 640), MediaFull>>)}
FeaturedMediaChoices == {Absent, Some(0 - 1), Some(0), Some(7)}
CategoryChoices == {<<>>, <<[name |-> "News"]>>}
TagChoices == {<<>>, <<[name |-> "seo"], [name |-> "web"]>>}
TermChoices ==
    {Absent, Some(<<>>)} \cup {Some(<<c>>) : c \in CategoryChoices}
        \cup {Some(<<c, t>>) : c \in CategoryChoices, t \in TagChoices}

Embedded(featured, terms) ==
    LET author == ("author" :> <<[slug |-> "walter"]>>)
        f == IF featured = Absent THEN author
             ELSE author @@ ("wp:featuredmedia" :> featured.some)
    IN  IF terms = Absent THEN f ELSE f @@ ("wp:term" :> terms.some)

Post(id, fm, featured, terms) ==
    LET p == ("id" :> id)
                @@ ("title" :> [rendered |-> "Hello"])
                @@ ("date" :> "2024-01-01T10:00:00")
                @@ ("modified" :> "2024-01-02T10:00:00")
                @@ ("link" :> "https://webmemo.ch/hello")
                @@ ("_embedded" :> Embedded(featured, terms))
    IN  IF fm = Absent THEN p ELSE p @@ ("featured_media" :> fm.some)

PostInputs ==
    {Post(1, fm, f, t) : fm \in FeaturedMediaChoices, f \in FeaturedChoices,
                         t \in TermChoices}

\* what the site holds when main() runs
User1 == ("id" :> 1) @@ ("slug" :> "walter") @@ ("name" :> "Walter")
            @@ ("description" :> "Author")
Post1 == Post(10, Some(7), Some(<<MediaFull>>), Some(<< <<[name |-> "News"]>> >>))
Category1 == ("id" :> 3) @@ ("name" :> "News")

MainSites ==
    {("posts" :> posts) @@ ("pages" :> <<>>) @@ ("users" :> users)
        @@ ("categories" :> << <<Category1>> >>) @@ ("tags" :> <<>>)
        @@ (MainUrls[1] :> <<Dumped("@type" :> "Article"), [broken |-> "{\"@type\": "]>>)
        @@ (MainUrls[2] :> <<>>) :
        posts \in {<<>>, << <<Post1>> >>}, users \in {<<>>, << <<User1>> >>}}

Envs == [IN_COLAB : BOOLEAN, credentials_path : {"", "credentials.json"}]

(***************************************************************************)
(* Calls of one function alone.                                            *)
(***************************************************************************)
call_fetch_all_pages ==
    /\ call = NoCall
    /\ \E e \in {"posts", "users"}, prm \in ParamChoices :
        /\ call' = [fn |-> "fetch_all_pages", endpoint |-> e, params |-> prm]
        /\ fetch_all_pages_enter(e, prm)
    /\ UNCHANGED <<site, events, dataVars, uploadVars, validateVars, articleVars,
                   mainVars>>

call_upload_schemas ==
    /\ call = NoCall
    /\ \E n \in 0..MaxLen, size \in 1..MaxBatch :
        /\ call' = [fn |-> "upload_schemas", schemas |-> SchemaList(n),
                    batch_size |-> size]
        /\ upload_schemas_enter(SchemaList(n), size)
    /\ UNCHANGED <<site, events, fetchVars, dataVars, validateVars, articleVars,
                   mainVars>>

call_validate_schemas ==
    /\ call = NoCall
    /\ \E lst \in SeqsUpTo(Urls, MaxUrls) :
        /\ call' = [fn |-> "validate_schemas", urls |-> lst]
        /\ validate_schemas_enter(lst)
    /\ UNCHANGED <<site, events, fetchVars, dataVars, uploadVars, articleVars,
                   mainVars>>

call_generate_article_schema ==
    /\ call = NoCall
    /\ \E p \in PostInputs :
        /\ call' = [fn |-> "generate_article_schema"]
        /\ post_data' = p
        /\ schema' = generate_article_schema(p)
    /\ UNCHANGED <<site, events, served, fetchVars, dataVars, uploadVars,
                   validateVars, mainVars>>

(***************************************************************************)
(* Specifications.                                                         *)
(***************************************************************************)
InitIdle ==
    /\ events = <<>>
    /\ served = <<>>
    /\ fpc = "idle" /\ endpoint = "" /\ params = EmptyDict /\ all_items = <<>>
    /\ dpc = 0 /\ fdata = EmptyDict
    /\ upc = "idle" /\ up_schemas = <<>> /\ batch_size = BatchSizeDefault
    /\ i = 0 /\ total_success = 0 /\ total_errors = 0
    /\ vpc = "idle" /\ urls = <<>> /\ vi = 1 /\ results = <<>>
    /\ post_data = Unbound /\ schema = Unbound
    /\ data = Unbound /\ schemas = Unbound
    /\ stages = <<>> /\ usage = FALSE /\ auths = 0 /\ sheets = <<>>

InitAlone ==
    /\ InitIdle
    /\ call = NoCall
    /\ mpc = "not running"
    /\ args = [fetch |-> FALSE, generate |-> FALSE, upload |-> FALSE,
               validate |-> FALSE, all |-> FALSE]
    /\ env = [IN_COLAB |-> TRUE, credentials_path |-> ""]

\* fetch_all_pages called alone
InitFetch ==
    /\ InitAlone
    /\ \E c \in Collections : site = [e \in {"posts", "users"} |-> c]

NextFetch == call_fetch_all_pages \/ fetch_all_pages_iter

SpecFetch == InitFetch /\ [][NextFetch]_vars

\* upload_schemas called alone
InitUpload == InitAlone /\ site = EmptyDict

NextUpload == call_upload_schemas \/ upload_schemas_step

SpecUpload == InitUpload /\ [][NextUpload]_vars

\* validate_schemas called alone
InitValidate == InitAlone /\ site \in [Urls -> HtmlPages]

NextValidate ==
    call_validate_schemas \/ validate_schemas_iter \/ validate_schemas_return

SpecValidate == InitValidate /\ [][NextValidate]_vars

\* generate_article_schema called alone
InitArticle == InitAlone /\ site = EmptyDict

NextArticle == call_generate_article_schema

SpecArticle == InitArticle /\ [][NextArticle]_vars

\* the script run from the command line
Init ==
    /\ InitIdle
    /\ call = [fn |-> "main"]
    /\ mpc = "parse"
    /\ args \in Flags
    /\ env \in Envs
    /\ site \in MainSites

Next ==
    \/ main_parse
    \/ main_authenticate
    \/ main_fetch
    \/ main_fetch_done
    \/ main_generate
    \/ main_generate_done
    \/ main_raised
    \/ main_upload
    \/ main_upload_done
    \/ main_validate
    \/ main_validate_done
    \/ fetch_data_call
    \/ fetch_data_store
    \/ fetch_all_pages_iter
    \/ upload_schemas_step
    \/ validate_schemas_iter
    \/ validate_schemas_return

Spec == Init /\ [][Next]_vars

(***************************************************************************)
(* Properties.                                                             *)
(***************************************************************************)
IsAnswer(r) == r.kind = "response"
IsFullPage(r) == IsAnswer(r) /\ r.status = 200 /\ r.body # <<>>
IsEmptyPage(r) == IsAnswer(r) /\ r.status = 200 /\ r.body = <<>>

Bodies(rs) == [k \in 1..Len(rs) |-> rs[k].body]

\* the GET requests for pages p, p+1, ..., p+n-1 of the current endpoint
PageRequests(p, n) == [k \in 1..n |-> <<"GET", endpoint, p + k - 1>>]

StartPage == IF Has(call.params, "page") THEN call.params["page"] ELSE FirstPage

\* C1: a fetch_all_pages call whose params carry no 'page' key, answered by
\* non-empty pages 1..N-1 and an empty page N, has requested pages 1..N in
\* order, each once, has stopped, and returns the items of pages 1..N-1 in
\* page order and within-page order.
C1_FetchReturnsAllPages ==
    (call.fn = "fetch_all_pages" /\ ~Has(call.params, "page")) =>
        LET N == Len(served)
        IN  (/\ N >= 1
             /\ \A k \in 1..(N - 1) : IsFullPage(served[k])
             /\ IsEmptyPage(served[N]))
            => /\ fpc = "returned"
               /\ events = PageRequests(1, N)
               /\ all_items = Flatten(Bodies(SubSeq(served, 1, N - 1)))
               /\ ~ENABLED fetch_all_pages_iter

C1_Witness ==
    /\ call.fn = "fetch_all_pages"
    /\ ~Has(call.params, "page")
    /\ fpc = "returned"
    /\ Len(served) = 3
    /\ IsFullPage(served[1]) /\ IsFullPage(served[2]) /\ IsEmptyPage(served[3])
    /\ all_items = <<"a", "b", "b">>

\* C2: when the answer for a page has a status other than 200, fetch_all_pages
\* stops at once (that page is not retried, no later page is requested) and
\* returns the items of the pages before it, nothing when it is the first.
C2_FetchStopsOnError ==
    (/\ call.fn = "fetch_all_pages"
     /\ Len(served) >= 1
     /\ IsAnswer(served[Len(served)])
     /\ served[Len(served)].status # 200)
    => LET K == Len(served)
       IN  /\ fpc = "returned"
           /\ events = PageRequests(StartPage, K)
           /\ all_items = Flatten(Bodies(SubSeq(served, 1, K - 1)))
           /\ (K = 1 => all_items = <<>>)
           /\ ~ENABLED fetch_all_pages_iter

C2_Witness ==
    /\ call.fn = "fetch_all_pages"
    /\ fpc = "returned"
    /\ Len(served) = 2
    /\ IsFullPage(served[1])
    /\ served[2] = Response(503, ErrorBody)
    /\ all_items = <<"b", "a">>
    /\ Len(events) = 2

\* the batches POSTed so far, in order
Posts == SelectSeq(events, LAMBDA e : e[1] = "POST")
PostedBatches == [k \in 1..Len(Posts) |-> Posts[k][3]]

Ceil(n, d) == (n + d - 1) \div d

\* C3: upload_schemas sends exactly ceil(L/B) POST requests whatever the
\* answers are; the batches are contiguous slices of the input in input order,
\* each of size 1..B, their concatenation is the input, none is sent twice.
C3_UploadBatches ==
    call.fn = "upload_schemas" =>
        LET L == Len(call.schemas)
            B == call.batch_size
            sent == Flatten(PostedBatches)
        IN  /\ Len(PostedBatches) <= Ceil(L, B)
            /\ \A k \in 1..Len(PostedBatches) : Len(PostedBatches[k]) \in 1..B
            /\ Len(sent) <= L
            /\ sent = SubSeq(call.schemas, 1, Len(sent))
            /\ upc = "returned" =>
                    /\ Len(PostedBatches) = Ceil(L, B)
                    /\ sent = call.schemas

C3_Witness ==
    /\ call.fn = "upload_schemas"
    /\ upc = "returned"
    /\ Len(call.schemas) = 3
    /\ call.batch_size = 2
    /\ Len(PostedBatches) = 2
    /\ served[1] = Raised
    /\ IsAnswer(served[2]) /\ served[2].status = 503

\* what the claim lets a batch add to <<total_success, total_errors>>: the
\* lengths of the two lists of a status-200 answer, and <<0, size of the
\* batch>> for a failed one
Owed(r, batch) ==
    IF IsAnswer(r) /\ r.status = 200 /\ IsJson(r.body)
        THEN <<IF Has(r.body["json"], "success")
                    THEN Len(r.body["json"]["success"]) ELSE 0,
               IF Has(r.body["json"], "errors")
                    THEN Len(r.body["json"]["errors"]) ELSE 0>>
        ELSE <<0, Len(batch)>>

RECURSIVE OwedSum(_, _)
OwedSum(n, j) ==
    IF n = 0 THEN 0 ELSE OwedSum(n - 1, j) + Owed(served[n], PostedBatches[n])[j]

\* C4: a failed batch (status other than 200, or an exception) adds its size to
\* total_errors and nothing to total_success; a status-200 batch adds the
\* lengths of its 'success' and 'errors' lists; the totals are the sum of these
\* per-batch amounts, so no batch changes what another one adds.
C4_UploadCounts ==
    call.fn = "upload_schemas" =>
        /\ Len(served) = Len(PostedBatches)
        /\ total_success = OwedSum(Len(served), 1)
        /\ total_errors = OwedSum(Len(served), 2)

C4_Witness ==
    /\ call.fn = "upload_schemas"
    /\ upc = "returned"
    /\ call.batch_size = 2
    /\ Len(served) = 2
    /\ IsAnswer(served[1]) /\ served[1].status = 503
    /\ Len(PostedBatches[1]) = 2 /\ Len(PostedBatches[2]) = 1
    /\ served[2] = Response(200, Dumped("success" :> Listed(1)))
    /\ total_success = 1
    /\ total_errors = 2

RecordsOf(u) == SelectSeq(results, LAMBDA rec : rec.url = u)
Occurrences(u) == Cardinality({p \in 1..Len(urls) : urls[p] = u})

\* C5: a URL fetched with status 200 whose page has k >= 1 JSON-LD blocks gets
\* exactly k result records, in block order with schema_index 0..k-1; a record
\* has valid_json true exactly when its block is JSON, and the record of a
\* malformed block carries the block text unchanged and the parse error.
C5_ValidateRecords ==
    (call.fn = "validate_schemas" /\ vpc = "returned") =>
        \A p \in 1..Len(urls) :
            (/\ Occurrences(urls[p]) = 1
             /\ IsAnswer(served[p])
             /\ served[p].status = 200
             /\ Len(served[p].body) >= 1)
            => LET blocks == served[p].body
                   recs == RecordsOf(urls[p])
               IN  /\ Len(recs) = Len(blocks)
                   /\ \A k \in 1..Len(recs) :
                        /\ recs[k].schema_index = k - 1
                        /\ recs[k].valid_json = IsJson(blocks[k])
                        /\ ~IsJson(blocks[k]) =>
                                /\ recs[k].schema_data = blocks[k]
                                /\ recs[k].error = DecodeError(blocks[k])

\* the schema without its 'image' field
WithoutImage(sch) == [k \in DOMAIN sch \ {"image"} |-> sch[k]]

\* the post with 'featured_media' left out or set
WithFeaturedMedia(post, fm) ==
    IF fm = Absent
        THEN [k \in DOMAIN post \ {"featured_media"} |-> post[k]]
        ELSE Put(post, "featured_media", fm.some)

\* C6: generate_article_schema omits 'image' when 'featured_media' is absent or
\* <= 0; when it is > 0 and the first embedded featured-media entry has a
\* source_url, 'image' carries that url with the entry's width and height, or
\* 1200 and 630 where the entry has none; no other field depends on
\* featured_media.
C6_ArticleImage ==
    call.fn = "generate_article_schema" =>
        LET emb == post_data["_embedded"]
        IN  /\ (~Has(post_data, "featured_media") \/ post_data["featured_media"] <= 0)
                    => ~Has(schema, "image")
            /\ (/\ Has(post_data, "featured_media")
                /\ post_data["featured_media"] > 0
                /\ Has(emb, "wp:featuredmedia")
                /\ emb["wp:featuredmedia"] # <<>>
                /\ Has(emb["wp:featuredmedia"][1], "source_url"))
               => LET media == emb["wp:featuredmedia"][1]
                  IN  /\ Has(schema, "image")
                      /\ schema["image"]["url"] = media["source_url"]
                      /\ schema["image"]["width"] =
                            (IF Has(media, "width") THEN media["width"] ELSE 1200)
                      /\ schema["image"]["height"] =
                            (IF Has(media, "height") THEN media["height"] ELSE 630)
            /\ \A fm \in FeaturedMediaChoices :
                    WithoutImage(generate_article_schema(WithFeaturedMedia(post_data, fm)))
                        = WithoutImage(schema)

C6_Witness ==
    /\ call.fn = "generate_article_schema"
    /\ Has(post_data, "featured_media")
    /\ post_data["featured_media"] = 7
    /\ Has(post_data["_embedded"], "wp:featuredmedia")
    /\ post_data["_embedded"]["wp:featuredmedia"]
            = <<("source_url" :> "https://webmemo.ch/a.jpg")>>
    /\ Has(schema, "image")
    /\ schema["image"]["width"] = 1200
    /\ schema["image"]["height"] = 630

StageOrder == <<"fetch", "generate", "upload", "validate">>
Selected(a) == SelectSeq(StageOrder, LAMBDA st : a.all \/ a[st])

\* C7: the stages that run are exactly the selected ones (all selects every
\* stage), each at most once, in the order fetch, generate, upload, validate;
\* with no flag, usage is printed and the run ends with no authentication, no
\* network request and no spreadsheet write.  (authenticate() comes before the
\* stages; a run it ends with ValueError is not a run the claim speaks of.)
C7_StagesAsSelected ==
    call.fn = "main" =>
        /\ Len(stages) <= Len(Selected(args))
        /\ stages = SubSeq(Selected(args), 1, Len(stages))
        /\ mpc \in {"done", "RequestException"} =>
                stages = (IF AnyFlag(args) THEN Selected(args) ELSE <<>>)
        /\ (~AnyFlag(args) /\ mpc # "parse") =>
                /\ mpc = "done"
                /\ usage
                /\ auths = 0
                /\ events = <<>>
                /\ sheets = <<>>

\* C8: a transport or HTTP failure never aborts the run: no exception of an
\* HTTP call leaves the function that made the call or ends main, and a URL of
\* the validation stage whose request failed contributes no result record.
C8_FailuresNeverAbort ==
    call.fn = "main" =>
        /\ fpc # "raised"
        /\ mpc # "RequestException"
        /\ \A p \in 1..Len(urls) :
                (mpc = "validating" /\ p <= Len(served) /\ ~IsFullPage(served[p]))
                    => RecordsOf(urls[p]) = <<>>

\* C9: in a run with the all flag, upload_schemas is handed the sequence that
\* generate_schemas returned in that run, and sends ceil(L/50) POST requests
\* for its L records.
C9_UploadsGenerated ==
    (call.fn = "main" /\ args.all /\ mpc = "uploading") =>
        /\ up_schemas = generate_schemas(data)
        /\ upc = "returned" =>
                Len(Posts) = Ceil(Len(generate_schemas(data)), BatchSizeDefault)

IsRequest(e) == e[1] \in {"GET", "POST"}

\* C10: in upload_schemas and in validate_schemas exactly one delay lies
\* between any two consecutive requests, whatever the outcome of the earlier
\* request was; no two requests are sent back to back.
C10_Pacing ==
    call.fn \in {"upload_schemas", "validate_schemas"} =>
        \A k \in 1..(Len(events) - 1) :
            /\ IsRequest(events[k]) => events[k + 1][1] = "sleep"
            /\ events[k][1] = "sleep" => IsRequest(events[k + 1])

====
